---- MODULE Spec2Model ----
(***************************************************************************)
(* Model of the VisioLab Menu Import API stub (src/api.py).                *)
(*                                                                         *)
(* The process state is the FastAPI application object: the memoized       *)
(* schema document app.openapi_schema, and the file ./logo.png that        *)
(* custom_openapi reads.  The operations are the two route handlers        *)
(* get_menu and get_menus, which return literals, and custom_openapi,      *)
(* which is installed as app.openapi (served at /openapi.json).            *)
(*                                                                         *)
(* custom_openapi takes no lock between its test of app.openapi_schema     *)
(* and its assignment to it, so callers are modelled as threads that       *)
(* interleave at statement granularity (pc values name source lines).      *)
(* The log of completed requests and the two counters are history          *)
(* variables: the code does not read them.                                 *)
(***************************************************************************)
EXTENDS Integers, Sequences, FiniteSets, TLC

\* ---------------------------------------------------------------- bounds
\* Requests (of any endpoint) started in one behaviour.
MaxRequests == 3
\* Concurrent callers of custom_openapi.
NumThreads == 2
\* Length in bytes of the longest logo.png considered.
MaxLogoLen == 3

Threads == 1..NumThreads

\* The date strings clients send: two ISO-8601 dates in ascending order and
\* one string that is not a date.
IsoDates == <<"2023-01-01", "2023-01-02">>
NotADate == "tomorrow"
Dates == {IsoDates[i] : i \in 1..Len(IsoDates)} \cup {NotADate}

\* logo.png: absent, or a prefix of the PNG signature.
PngSignature == <<137, 80, 78, 71, 13, 10, 26, 10>>
Missing == <<-1>>
LogoFiles == {Missing} \cup {SubSeq(PngSignature, 1, n) : n \in 0..MaxLogoLen}

\* ------------------------------------------------------------ data model
\* Item.category, a Literal of eight values.
Categories == {"MAIN", "SIDE", "BOTTLE", "DESSERT", "DRINK", "SALAD", "SOUP", "OTHER"}

\* Python's None, as the value of app.openapi_schema before the first store.
None == [none |-> TRUE]

\* prices are kept as the decimal literals of the source.
Burger == [name |-> "Burger", price |-> "3.0", priceLookup |-> "123", category |-> "MAIN"]
Salad456 == [name |-> "Salad", price |-> "1.5", priceLookup |-> "456", category |-> "SALAD"]
Pasta == [name |-> "Pasta", price |-> "3.0", priceLookup |-> "123", category |-> "MAIN"]
Salad546 == [name |-> "Salad", price |-> "1.5", priceLookup |-> "546", category |-> "SALAD"]

\* ------------------------------------------------------- route handlers
\* A handler that returns a dict is answered with status 200 (no status_code
\* is set on either route).

\* Mutant: the handler echoes the requested date.
get_menu_echo(date) ==
    [status |-> 200,
     body |-> [date |-> date, items |-> <<Burger, Salad456>>]]

\* Mutant: a category outside the Literal.
get_menu_typo(date) ==
    [status |-> 200,
     body |-> [date |-> "2023-01-01",
               items |-> <<[Burger EXCEPT !.category = "MAINS"], Salad456>>]]

get_menu(date) ==
    [status |-> 200,
     body |-> [date |-> "2023-01-01", items |-> <<Burger, Salad456>>]]

IsIso(d) == \E i \in 1..Len(IsoDates) : IsoDates[i] = d
DateIndex(d) == CHOOSE i \in 1..Len(IsoDates) : IsoDates[i] = d
\* a <= b on ISO dates
DateLeq(a, b) == DateIndex(a) <= DateIndex(b)

TwoMenus ==
    [menus |-> << [date |-> "2023-01-01", items |-> <<Burger, Salad456>>],
                  [date |-> "2023-01-02", items |-> <<Pasta, Salad546>>] >>]

\* Mutant: the handler rejects a range whose start is after its end.
get_menus_validating(start, end) ==
    IF IsIso(start) /\ IsIso(end) /\ ~DateLeq(start, end)
    THEN [status |-> 422, body |-> [message |-> "start is after end"]]
    ELSE [status |-> 200, body |-> TwoMenus]

get_menus(start, end) == [status |-> 200, body |-> TwoMenus]

\* ------------------------------------------------------------- base64
\* The ASCII code of the base64 digit for the 6-bit value i.
b64digit(i) ==
    IF i < 26 THEN 65 + i
    ELSE IF i < 52 THEN 97 + (i - 26)
    ELSE IF i < 62 THEN 48 + (i - 52)
    ELSE IF i = 62 THEN 43 ELSE 47

RECURSIVE b64encode(_)
\* base64.b64encode: bytes -> bytes (ASCII codes), "=" (61) padded.
b64encode(bs) ==
    IF Len(bs) = 0 THEN <<>>
    ELSE IF Len(bs) = 1 THEN
        << b64digit(bs[1] \div 4), b64digit((bs[1] % 4) * 16), 61, 61 >>
    ELSE IF Len(bs) = 2 THEN
        << b64digit(bs[1] \div 4),
           b64digit((bs[1] % 4) * 16 + bs[2] \div 16),
           b64digit((bs[2] % 16) * 4), 61 >>
    ELSE
        << b64digit(bs[1] \div 4),
           b64digit((bs[1] % 4) * 16 + bs[2] \div 16),
           b64digit((bs[2] % 16) * 4 + bs[3] \div 64),
           b64digit(bs[3] % 64) >> \o b64encode(SubSeq(bs, 4, Len(bs)))

Upper == <<"A","B","C","D","E","F","G","H","I","J","K","L","M",
           "N","O","P","Q","R","S","T","U","V","W","X","Y","Z">>
Lower == <<"a","b","c","d","e","f","g","h","i","j","k","l","m",
           "n","o","p","q","r","s","t","u","v","w","x","y","z">>
Digits == <<"0","1","2","3","4","5","6","7","8","9">>

\* The character of an ASCII code, for the codes base64 produces.
AsciiChar(c) ==
    IF c \in 65..90 THEN Upper[c - 64]
    ELSE IF c \in 97..122 THEN Lower[c - 96]
    ELSE IF c \in 48..57 THEN Digits[c - 47]
    ELSE IF c = 43 THEN "+"
    ELSE IF c = 47 THEN "/"
    ELSE "="

\* bytes.decode("utf-8") on ASCII bytes: a str, modelled as a sequence of
\* one-character strings.
decode_utf8(bs) == [k \in 1..Len(bs) |-> AsciiChar(bs[k])]

\* The literal "data:image/png;base64, " of as_base64_url, with its
\* trailing space.
UrlPrefix ==
    <<"d","a","t","a",":","i","m","a","g","e","/","p","n","g",";",
      "b","a","s","e","6","4",","," ">>

\* as_base64_url(path) for a file that exists with content bs.
as_base64_url(bs) == UrlPrefix \o decode_utf8(b64encode(bs))

\* --------------------------------------------------------------- schema
app_title == "VisioLab Menu Import API"
app_description == "API for importing menus into the VisioLab backend."
\* FastAPI's default, as no version is passed to the constructor.
app_version == "0.1.0"
app_routes == {"/menus/{date}", "/menus/"}

\* fastapi.openapi.utils.get_openapi, as far as custom_openapi relies on it:
\* the arguments appear under info and paths.
get_openapi(title, version, description, routes) ==
    [info |-> [title |-> title, version |-> version, description |-> description],
     paths |-> routes]

\* openapi_schema["info"]["x-logo"] = {"url": url}
WithLogo(schema, url) ==
    [schema EXCEPT !.info = ("x-logo" :> [url |-> url]) @@ schema.info]

HasLogo(schema) == "x-logo" \in DOMAIN schema.info

\* ---------------------------------------------------------------- state
VARIABLES
    logo,                \* the content of ./logo.png, or Missing
    app_openapi_schema,  \* app.openapi_schema
    pc,                  \* pc[t]: the line of custom_openapi thread t is at
    openapi_schema,      \* openapi_schema[t]: the local of custom_openapi
    log,                 \* completed requests, in completion order
    genRuns,             \* executions of the get_openapi call
    writes               \* assignments to app.openapi_schema

vars == <<logo, app_openapi_schema, pc, openapi_schema, log, genRuns, writes>>

Started == Len(log) + Cardinality({t \in Threads : pc[t] # "idle"})

Entry(endpoint, params, response) ==
    [endpoint |-> endpoint, params |-> params, response |-> response]

Init ==
    /\ logo \in LogoFiles
    /\ app_openapi_schema = None
    /\ pc = [t \in Threads |-> "idle"]
    /\ openapi_schema = [t \in Threads |-> None]
    /\ log = <<>>
    /\ genRuns = 0
    /\ writes = 0

\* -------------------------------------------------------------- actions
\* Mutant: once schema generation has failed, the service answers 500.
GetMenuPoisoned ==
    /\ Started < MaxRequests
    /\ \E date \in Dates :
         log' = Append(log, Entry("get_menu", <<date>>,
                   IF \E i \in 1..Len(log) : log[i].response.status = 500
                   THEN [status |-> 500, body |-> [exception |-> "FileNotFoundError"]]
                   ELSE get_menu(date)))
    /\ UNCHANGED <<logo, app_openapi_schema, pc, openapi_schema, genRuns, writes>>

\* GET /menus/{date}
GetMenu ==
    /\ Started < MaxRequests
    /\ \E date \in Dates :
         log' = Append(log, Entry("get_menu", <<date>>, get_menu(date)))
    /\ UNCHANGED <<logo, app_openapi_schema, pc, openapi_schema, genRuns, writes>>

\* GET /menus/?start=..&end=..
GetMenus ==
    /\ Started < MaxRequests
    /\ \E start \in Dates, end \in Dates :
         log' = Append(log, Entry("get_menus", <<start, end>>, get_menus(start, end)))
    /\ UNCHANGED <<logo, app_openapi_schema, pc, openapi_schema, genRuns, writes>>

\* A caller enters custom_openapi.
Call(t) ==
    /\ Started < MaxRequests
    /\ pc[t] = "idle"
    /\ pc' = [pc EXCEPT ![t] = "L218"]
    /\ UNCHANGED <<logo, app_openapi_schema, openapi_schema, log, genRuns, writes>>

\* Mutant: the cache hit returns the document without the logo.
CachedNoLogo ==
    [app_openapi_schema EXCEPT
        !.info = [k \in DOMAIN app_openapi_schema.info \ {"x-logo"} |->
                     app_openapi_schema.info[k]]]

\* return app.openapi_schema (the cache hit)
Cached == app_openapi_schema

\* if app.openapi_schema: return app.openapi_schema
Check(t) ==
    /\ pc[t] = "L218"
    /\ IF app_openapi_schema # None
       THEN /\ log' = Append(log, Entry("openapi", <<>>,
                         [status |-> 200, body |-> Cached]))
            /\ pc' = [pc EXCEPT ![t] = "idle"]
       ELSE /\ pc' = [pc EXCEPT ![t] = "L220"]
            /\ log' = log
    /\ UNCHANGED <<logo, app_openapi_schema, openapi_schema, genRuns, writes>>

\* Mutant: the document is stored before the logo is attached.
GenerateStoreEarly(t) ==
    /\ pc[t] = "L220"
    /\ openapi_schema' = [openapi_schema EXCEPT ![t] =
            get_openapi(app_title, app_version, app_description, app_routes)]
    /\ app_openapi_schema' = openapi_schema'[t]
    /\ genRuns' = genRuns + 1
    /\ pc' = [pc EXCEPT ![t] = "L226"]
    /\ UNCHANGED <<logo, log, writes>>

\* openapi_schema = get_openapi(...)
Generate(t) ==
    /\ pc[t] = "L220"
    /\ openapi_schema' = [openapi_schema EXCEPT ![t] =
            get_openapi(app_title, app_version, app_description, app_routes)]
    /\ genRuns' = genRuns + 1
    /\ pc' = [pc EXCEPT ![t] = "L226"]
    /\ UNCHANGED <<logo, app_openapi_schema, log, writes>>

\* openapi_schema["info"]["x-logo"] = {"url": as_base64_url("./logo.png")}
\* read_bytes raises FileNotFoundError when the file is absent; the exception
\* leaves custom_openapi, and the /openapi.json route answers 500.
AttachLogo(t) ==
    /\ pc[t] = "L226"
    /\ IF logo = Missing
       THEN /\ log' = Append(log, Entry("openapi", <<>>,
                         [status |-> 500, body |-> [exception |-> "FileNotFoundError"]]))
            /\ openapi_schema' = [openapi_schema EXCEPT ![t] = None]
            /\ pc' = [pc EXCEPT ![t] = "idle"]
       ELSE /\ openapi_schema' = [openapi_schema EXCEPT ![t] =
                    WithLogo(openapi_schema[t], as_base64_url(logo))]
            /\ pc' = [pc EXCEPT ![t] = "L227"]
            /\ log' = log
    /\ UNCHANGED <<logo, app_openapi_schema, genRuns, writes>>

\* app.openapi_schema = openapi_schema
Store(t) ==
    /\ pc[t] = "L227"
    /\ app_openapi_schema' = openapi_schema[t]
    /\ writes' = writes + 1
    /\ pc' = [pc EXCEPT ![t] = "L228"]
    /\ UNCHANGED <<logo, openapi_schema, log, genRuns>>

\* return app.openapi_schema
Return(t) ==
    /\ pc[t] = "L228"
    /\ log' = Append(log, Entry("openapi", <<>>,
                 [status |-> 200, body |-> app_openapi_schema]))
    /\ openapi_schema' = [openapi_schema EXCEPT ![t] = None]
    /\ pc' = [pc EXCEPT ![t] = "idle"]
    /\ UNCHANGED <<logo, app_openapi_schema, genRuns, writes>>

Next ==
    \/ GetMenu
    \/ GetMenus
    \/ \E t \in Threads : Call(t)
    \/ \E t \in Threads : Check(t)
    \/ \E t \in Threads : Generate(t)
    \/ \E t \in Threads : AttachLogo(t)
    \/ \E t \in Threads : Store(t)
    \/ \E t \in Threads : Return(t)

Spec == Init /\ [][Next]_vars

\* =============================================================== claims
Idx == 1..Len(log)
IsData(e) == e.endpoint \in {"get_menu", "get_menus"}
SameRequest(a, b) == a.endpoint = b.endpoint /\ a.params = b.params

\* C1: for every valid date d, get_menu(d) answers 404 or exactly one Menu
\* whose date equals d.
C1_MenuDateMatches ==
    \A i \in Idx :
        (log[i].endpoint = "get_menu" /\ IsIso(log[i].params[1])) =>
            \/ log[i].response.status = 404
            \/ /\ log[i].response.status = 200
               /\ log[i].response.body.date = log[i].params[1]

\* C2: for every valid range s <= e, every Menu of the Menus that get_menus
\* returns has s <= date <= e, and no two of them share a date.
C2_MenusWithinRange ==
    \A i \in Idx :
        (/\ log[i].endpoint = "get_menus"
         /\ IsIso(log[i].params[1]) /\ IsIso(log[i].params[2])
         /\ DateLeq(log[i].params[1], log[i].params[2])
         /\ log[i].response.status = 200) =>
            LET m == log[i].response.body.menus IN
            /\ \A k \in 1..Len(m) :
                 /\ IsIso(m[k].date)
                 /\ DateLeq(log[i].params[1], m[k].date)
                 /\ DateLeq(m[k].date, log[i].params[2])
            /\ \A k, l \in 1..Len(m) : m[k].date = m[l].date => k = l

\* C3: two requests to the same endpoint with the same parameters get the
\* same response, whatever was served in between.
C3_Idempotent ==
    \A i, j \in Idx : SameRequest(log[i], log[j]) => log[i].response = log[j].response

\* The schema is generated and returned, another endpoint is served, and the
\* schema is then returned from the cache.
C3_Witness ==
    /\ genRuns = 1
    /\ writes = 1
    /\ \E i, j, k \in Idx :
         /\ i < j /\ j < k
         /\ log[i].endpoint = "openapi" /\ log[i].response.status = 200
         /\ IsData(log[j])
         /\ log[k].endpoint = "openapi"

\* C4: the generation step runs at most once, and app.openapi_schema is
\* written at most once, over any number of calls to custom_openapi.
C4_GeneratedAtMostOnce == genRuns <= 1 /\ writes <= 1

\* C5: every Item of every body that get_menu and get_menus return has one
\* of the eight categories.
C5_CategoriesEnumerated ==
    \A i \in Idx :
        /\ log[i].endpoint = "get_menu" =>
             \A k \in 1..Len(log[i].response.body.items) :
                 log[i].response.body.items[k].category \in Categories
        /\ log[i].endpoint = "get_menus" =>
             \A m \in 1..Len(log[i].response.body.menus) :
                 \A k \in 1..Len(log[i].response.body.menus[m].items) :
                     log[i].response.body.menus[m].items[k].category \in Categories

\* Both handlers have answered, with items in their bodies.
C5_Witness ==
    /\ \E i \in Idx : log[i].endpoint = "get_menu"
                      /\ Len(log[i].response.body.items) > 0
    /\ \E i \in Idx : log[i].endpoint = "get_menus"
                      /\ Len(log[i].response.body.menus) > 0

\* C6: when logo.png is absent, every call of get_menu and get_menus still
\* gets its 200 response with a Menu or Menus body, before and after any
\* failed call of custom_openapi.
C6_LiveApiUnaffected ==
    logo = Missing =>
        \A i \in Idx :
            /\ log[i].endpoint = "get_menu" =>
                 /\ log[i].response.status = 200
                 /\ DOMAIN log[i].response.body = {"date", "items"}
            /\ log[i].endpoint = "get_menus" =>
                 /\ log[i].response.status = 200
                 /\ DOMAIN log[i].response.body = {"menus"}

\* A data request is served, custom_openapi then fails on the absent file,
\* and a data request is served after the failure.
C6_Witness ==
    /\ logo = Missing
    /\ \E i, j, k \in Idx :
         /\ i < j /\ j < k
         /\ IsData(log[i])
         /\ log[j].endpoint = "openapi" /\ log[j].response.status = 500
         /\ IsData(log[k])

\* "data:image/png;base64," with nothing after the comma.
DataUriPrefix ==
    <<"d","a","t","a",":","i","m","a","g","e","/","p","n","g",";",
      "b","a","s","e","6","4",",">>

\* C7: the document custom_openapi returns has info.title "VisioLab Menu
\* Import API" and info.x-logo.url equal to "data:image/png;base64,"
\* followed directly by the base64 encoding of the bytes of logo.png.
C7_LogoUrlWellFormed ==
    \A i \in Idx :
        (log[i].endpoint = "openapi" /\ log[i].response.status = 200) =>
            /\ log[i].response.body.info["title"] = "VisioLab Menu Import API"
            /\ log[i].response.body.info["x-logo"].url =
                   DataUriPrefix \o decode_utf8(b64encode(logo))

InvalidArgument(e) ==
    \/ e.endpoint = "get_menu" /\ ~IsIso(e.params[1])
    \/ /\ e.endpoint = "get_menus"
       /\ IsIso(e.params[1]) /\ IsIso(e.params[2])
       /\ ~DateLeq(e.params[1], e.params[2])

ValidArgument(e) ==
    \/ e.endpoint = "get_menu" /\ IsIso(e.params[1])
    \/ /\ e.endpoint = "get_menus"
       /\ IsIso(e.params[1]) /\ IsIso(e.params[2])
       /\ DateLeq(e.params[1], e.params[2])

\* C9: a request with an invalid argument gets no error: its response has
\* status 200 and is the response a valid request to that handler gets.
C9_NoValidation ==
    \A i \in Idx :
        InvalidArgument(log[i]) =>
            /\ log[i].response.status = 200
            /\ \A j \in Idx :
                 (ValidArgument(log[j]) /\ log[j].endpoint = log[i].endpoint) =>
                     log[j].response = log[i].response

\* get_menus has answered a range whose start is after its end and a valid
\* range, and get_menu a string that is not a date.
C9_Witness ==
    /\ \E i, j \in Idx :
         /\ log[i].endpoint = "get_menus" /\ InvalidArgument(log[i])
         /\ log[j].endpoint = "get_menus" /\ ValidArgument(log[j])
    /\ \E i \in Idx : log[i].endpoint = "get_menu" /\ InvalidArgument(log[i])

\* Thread t leaves custom_openapi by the exception of line 226.
Raises(t) == pc[t] = "L226" /\ pc'[t] = "idle"

\* C10: a failed generation leaves the cache as it was: app.openapi_schema
\* is always unset or a document with info.x-logo, the step that raises does
\* not change it, and while logo.png is absent every call that tests the
\* cache goes on to generate again.
C10_FailureLeavesCache ==
    /\ [](app_openapi_schema = None \/ HasLogo(app_openapi_schema))
    /\ [][\A t \in Threads :
            /\ Raises(t) => app_openapi_schema' = app_openapi_schema
            /\ (logo = Missing /\ pc[t] = "L218" /\ pc'[t] # "L218") =>
                  pc'[t] = "L220"]_vars

\* One call has failed, the cache is unset, and a later call has generated
\* again and is about to read the logo.
C10_Witness ==
    /\ logo = Missing
    /\ app_openapi_schema = None
    /\ \E i \in Idx : log[i].endpoint = "openapi" /\ log[i].response.status = 500
    /\ genRuns = 2
    /\ \E t \in Threads : pc[t] = "L226"

====
